---------------------------- MODULE Spec2Model ----------------------------
(***************************************************************************)
(* A model of the editing core of margherita:                              *)
(*   - History  (src/components/Editor/index.tsx): the undo/redo log with  *)
(*     time-windowed merging;                                              *)
(*   - Document (src/components/Editor/document.ts) with the line parser   *)
(*     (src/components/Editor/parser.ts): the node sequence and its        *)
(*     mutators, and the snapshots getState() hands out.                   *)
(*   - SelectionManager (src/components/Editor/selection.ts): the          *)
(*     select-all escalation and the range helpers.                        *)
(* Each component has its own specification (HistorySpec, DocSpec,         *)
(* SelectSpec); the variables of the other components are parked at Idle.  *)
(***************************************************************************)
EXTENDS Integers, Sequences, FiniteSets, TLC

VARIABLES
    \* ---- History (index.tsx) ----
    done,          \* History.done: undo-able transactions, most recent last
    undone,        \* History.undone: redo-able transactions
    lastAddedAt,   \* History.lastAddedAt
    now,           \* the clock Date.now() reads in dispatch
    ret,           \* the value the last undo()/redo() call returned
    run,           \* history variable: the current run of same-type, in-window
                   \* transactions since `done` was empty
    streak,        \* history variable: the current streak of undos, then redos
    \* ---- Document (document.ts) ----
    state,         \* Document.state: [nodes (an array reference), selection, activeNodeId]
    heap,          \* the node arrays: array reference -> sequence of Node
    nextId,        \* number of ids nanoid() has handed out
    snap,          \* the object the last getState() returned (NoSnap before)
    snapTaken,     \* history variable: what that snapshot read as when taken
    snapAge,       \* history variable: the mutator calls since that getState()
    \* ---- SelectionManager (selection.ts) ----
    lastSelectionType,   \* SelectionManager.lastSelectionType
    lastSelectionTime,   \* SelectionManager.lastSelectionTime
    \* ---- all ----
    op             \* the last operation called, with its arguments

histVars == <<done, undone, lastAddedAt, now, ret, run, streak>>
docVars  == <<state, heap, nextId, snap, snapTaken, snapAge>>
selVars  == <<lastSelectionType, lastSelectionTime>>
vars     == <<histVars, docVars, selVars, op>>

Idle == "idle"

Last(s) == s[Len(s)]
Front(s) == SubSeq(s, 1, Len(s) - 1)

(***************************************************************************)
(*                               History                                   *)
(***************************************************************************)

\* ---- bounds ----
MaxDone  == 2      \* cap on the length of `done`

\* ---- program constants ----
minTimeDelta == 1000

\* The transaction categories the model draws from (two of the closed set).
TransactionType == {"insert_text", "split_node"}

\* The editor DocumentStates a transaction can hold. History stores and returns
\* them and never reads inside one, so two snapshots that differ are enough.
DocumentStates == {[nodes |-> <<"1">>, activeNode |-> "1"],
                   [nodes |-> <<"1", "2">>, activeNode |-> "2"]}

\* The clock values the model visits: both sides of the 1000 ms window
\* measured from 0, from 1000 and from 1001.
Timestamps == {0, 1000, 1001, 2001}

Transaction == [before : DocumentStates, after : DocumentStates,
                timestamp : Timestamps, type : TransactionType]

\* undo()/redo() return null on an empty stack
Null == [null |-> TRUE]

\* shouldAdd of addTransaction
ShouldAddNoType(tr) ==
    \/ Len(done) = 0
    \/ tr.timestamp - lastAddedAt > minTimeDelta

ShouldAddAtEdge(tr) ==
    \/ Len(done) = 0
    \/ tr.timestamp - lastAddedAt >= minTimeDelta
    \/ Last(done).type # tr.type

ShouldAdd(tr) ==
    \/ Len(done) = 0
    \/ tr.timestamp - lastAddedAt > minTimeDelta
    \/ Last(done).type # tr.type

\* the merge branch: last.after = tr.after
MergeReplacesEntry(last, tr) == tr

MergeTakesTimestamp(last, tr) ==
    [last EXCEPT !.after = tr.after, !.timestamp = tr.timestamp]

MergeInto(last, tr) == [last EXCEPT !.after = tr.after]

\* lastAddedAt after the merge branch, which does not assign it
LastAddedSlides(tr) == tr.timestamp

LastAddedAfterMerge(tr) == lastAddedAt

\* this.undone = [] at the head of addTransaction
UndoneKeptOnMerge(tr) == IF ShouldAdd(tr) THEN <<>> ELSE undone

UndoneAfterAdd(tr) == <<>>

\* ---- history variables (they record, they decide nothing) ----

\* RunCap caps the counter of the transactions in a run.
RunCap == 3

Min(a, b) == IF a < b THEN a ELSE b

\* the run of same-type transactions, all within the merge window of the first,
\* that started on an empty `done`; closed by the one undo() that follows it
RunAfterAdd(tr) ==
    IF Len(done) = 0
    THEN [first |-> tr, last |-> tr, n |-> 1, closed |-> FALSE]
    ELSE IF /\ run # <<>>
            /\ ~run.closed
            /\ tr.type = run.first.type
            /\ tr.timestamp - run.first.timestamp <= minTimeDelta
         THEN [run EXCEPT !.last = tr, !.n = Min(run.n + 1, RunCap)]
         ELSE <<>>

RunAfterUndo ==
    IF run # <<>> /\ ~run.closed THEN [run EXCEPT !.closed = TRUE] ELSE <<>>

\* k successful undos from `base`, then j redos
StreakAfterUndo ==
    IF Len(done) = 0 THEN <<>>
    ELSE IF streak # <<>> /\ streak.j = 0
         THEN [streak EXCEPT !.k = streak.k + 1]
         ELSE [base |-> done, k |-> 1, j |-> 0]

StreakAfterRedo ==
    IF streak # <<>> /\ streak.j < streak.k /\ Len(undone) > 0
    THEN [streak EXCEPT !.j = streak.j + 1]
    ELSE <<>>

\* History.addTransaction(tr), called by dispatch with timestamp Date.now():
\* what it does to the History
addTransaction(tr) ==
    /\ tr.timestamp = now
    /\ ShouldAdd(tr) => Len(done) < MaxDone
    /\ undone' = UndoneAfterAdd(tr)
    /\ IF ShouldAdd(tr)
       THEN /\ done' = Append(done, tr)
            /\ lastAddedAt' = tr.timestamp
       ELSE /\ done' = [done EXCEPT ![Len(done)] = MergeInto(Last(done), tr)]
            /\ lastAddedAt' = LastAddedAfterMerge(tr)
    /\ run' = RunAfterAdd(tr)
    /\ streak' = <<>>
    /\ op' = [name |-> "addTransaction", type |-> tr.type, merged |-> ~ShouldAdd(tr),
              hadRedo |-> Len(undone) > 0,
              inWindow |-> tr.timestamp - lastAddedAt <= minTimeDelta,
              afterMerge |-> op.name = "addTransaction" /\ op.merged]

\* a call of History.addTransaction(tr) on its own
AddTransaction(tr) ==
    /\ addTransaction(tr)
    /\ UNCHANGED <<now, ret, docVars, selVars>>

\* what undo() returns for the popped transaction
UndoResultAfter(tr) == tr.after

UndoResult(tr) == tr.before

\* which entry undo() pops
UndoPopsFirst(d) == 1

UndoPopIndex(d) == Len(d)

\* History.undo(): what it does to the History, and what it returns
undo ==
    /\ IF Len(done) = 0
       THEN /\ ret' = Null
            /\ UNCHANGED <<done, undone>>
       ELSE LET i == UndoPopIndex(done)
                tr == done[i]
            IN /\ done' = SubSeq(done, 1, i - 1) \o SubSeq(done, i + 1, Len(done))
               /\ undone' = Append(undone, tr)
               /\ ret' = UndoResult(tr)
    /\ run' = RunAfterUndo
    /\ streak' = StreakAfterUndo
    /\ op' = [name |-> "undo", done |-> done, undone |-> undone]
    /\ UNCHANGED lastAddedAt

\* a call of History.undo() on its own
Undo ==
    /\ undo
    /\ UNCHANGED <<now, docVars, selVars>>

\* History.redo(): what it does to the History, and what it returns
redo ==
    /\ IF Len(undone) = 0
       THEN /\ ret' = Null
            /\ UNCHANGED <<done, undone>>
       ELSE LET tr == Last(undone)
            IN /\ undone' = Front(undone)
               /\ done' = Append(done, tr)
               /\ ret' = tr.after
    /\ run' = <<>>
    /\ streak' = StreakAfterRedo
    /\ op' = [name |-> "redo"]
    /\ UNCHANGED lastAddedAt

\* a call of History.redo() on its own
Redo ==
    /\ redo
    /\ UNCHANGED <<now, docVars, selVars>>

\* History.canUndo() / History.canRedo()
canUndoAlways == Len(done) >= 0

canUndo == Len(done) > 0

canRedo == Len(undone) > 0

\* time passes between two events; `op` keeps naming the last call
Tick ==
    /\ \E t \in Timestamps : t > now /\ now' = t
    /\ UNCHANGED <<done, undone, lastAddedAt, ret, run, streak, op, docVars, selVars>>

HistoryInit ==
    /\ done = <<>>
    /\ undone = <<>>
    /\ lastAddedAt = 0
    /\ now = 0
    /\ ret = Null
    /\ run = <<>>
    /\ streak = <<>>
    /\ op = [name |-> "init"]
    /\ state = Idle /\ heap = Idle /\ nextId = 0
    /\ snap = Idle /\ snapTaken = Idle /\ snapAge = 0
    /\ lastSelectionType = Idle /\ lastSelectionTime = Idle

HistoryNext ==
    \/ \E tr \in Transaction : AddTransaction(tr)
    \/ Undo
    \/ Redo
    \/ Tick

HistorySpec == HistoryInit /\ [][HistoryNext]_vars

\* a step that is a call of the named operation (Tick alone moves the clock)
Called(name) == op'.name = name /\ now' = now

(***************************************************************************)
(* C1: from an empty `done`, a run of n >= 1 transactions of one type, all *)
(* within the 1000 ms window of the first, leaves exactly one entry in     *)
(* `done`, with the first one's `before` and the last one's `after`; the   *)
(* one undo() that follows returns the `before` of the first.              *)
(***************************************************************************)
C1_MergedRun ==
    run # <<>> =>
        IF ~run.closed
        THEN /\ Len(done) = 1
             /\ done[1].before = run.first.before
             /\ done[1].after = run.last.after
        ELSE /\ ret = run.first.before
             /\ Len(done) = 0

\* three transactions were merged into one entry, and one undo() took it back
C1_Witness ==
    /\ run # <<>>
    /\ run.closed
    /\ run.n >= 3
    /\ op.name = "undo"
    /\ run.last.after # run.first.after
    /\ run.last.timestamp = run.first.timestamp + minTimeDelta

(***************************************************************************)
(* C2: after every addTransaction call, appending or merging, `undone` is  *)
(* empty: canRedo() is false and a redo() called next returns null.        *)
(***************************************************************************)
C2_AddClearsUndone ==
    [][ /\ op'.name = "addTransaction" => (undone' = <<>> /\ ~canRedo')
        /\ (op.name = "addTransaction" /\ Called("redo")) => ret' = Null
      ]_vars

\* a merging addTransaction that found redo-able entries
C2_Witness ==
    /\ op.name = "addTransaction"
    /\ op.merged
    /\ op.hadRedo
    /\ undone = <<>>

(***************************************************************************)
(* C3: an addTransaction whose type differs from the type of the top entry *)
(* of `done` appends: `done` grows by exactly one and what was there is    *)
(* unchanged, also within the 1000 ms window.                              *)
(***************************************************************************)
C3_TypeChangeAppends ==
    [][ (/\ Called("addTransaction")
         /\ Len(done) > 0
         /\ op'.type # Last(done).type)
        => /\ Len(done') = Len(done) + 1
           /\ SubSeq(done', 1, Len(done)) = done
           /\ Last(done').type = op'.type
           /\ Last(done').timestamp = now
      ]_vars

\* a transaction of another type, inside the window, was appended
C3_Witness ==
    /\ op.name = "addTransaction"
    /\ ~op.merged
    /\ op.inWindow
    /\ Len(done) >= 2
    /\ done[Len(done)].type # done[Len(done) - 1].type
    /\ Last(done).type = op.type

(***************************************************************************)
(* C4: undo and redo are LIFO: undo() removes the last entry of `done`,    *)
(* pushes it on `undone` and returns its `before`; redo() removes the last *)
(* entry of `undone`, pushes it on `done` and returns its `after`; k undos *)
(* then k redos return the `after`s in recording order and restore `done`. *)
(***************************************************************************)
C4_StreakOk ==
    streak # <<>> =>
        LET n == Len(streak.base) - streak.k + streak.j
        IN /\ done = SubSeq(streak.base, 1, n)
           /\ streak.j > 0 => ret = streak.base[n].after
           /\ streak.j = streak.k => done = streak.base

C4_LIFO ==
    [][ /\ (Called("undo") /\ Len(done) > 0)
           => /\ done' = Front(done)
              /\ undone' = Append(undone, Last(done))
              /\ ret' = Last(done).before
        /\ (Called("redo") /\ Len(undone) > 0)
           => /\ undone' = Front(undone)
              /\ done' = Append(done, Last(undone))
              /\ ret' = Last(undone).after
        /\ C4_StreakOk'
      ]_vars

\* two undos, then two redos
C4_Witness ==
    /\ streak # <<>>
    /\ streak.k >= 2
    /\ streak.j = streak.k
    /\ op.name = "redo"
    /\ streak.base[1] # streak.base[2]

(***************************************************************************)
(* C5: undo() on an empty `done` and redo() on an empty `undone` return    *)
(* null and leave both stacks and lastAddedAt unchanged; canUndo() is true *)
(* exactly when `done` is non-empty, canRedo() exactly when `undone` is.   *)
(***************************************************************************)
C5_EmptyStacks ==
    [][ /\ (Called("undo") /\ Len(done) = 0)
           => (ret' = Null /\ UNCHANGED <<done, undone, lastAddedAt>>)
        /\ (Called("redo") /\ Len(undone) = 0)
           => (ret' = Null /\ UNCHANGED <<done, undone, lastAddedAt>>)
        /\ canUndo' <=> done' # <<>>
        /\ canRedo' <=> undone' # <<>>
      ]_vars

\* undo() on an empty `done` after everything was undone
C5_Witness ==
    /\ op.name = "undo"
    /\ ret = Null
    /\ done = <<>>
    /\ undone # <<>>

(***************************************************************************)
(*                    Line parser (parser.ts)                              *)
(* A JavaScript string is a sequence of one-character strings.             *)
(***************************************************************************)

\* the whitespace class of a JavaScript regular expression, which trim() strips
Whitespace == {" ", "\t", "\n", "\r", "\f"}

\* the characters `.` does not match
LineTerminator == {"\n", "\r"}

\* the digit class
Digit == {"0", "1", "2", "3", "4", "5", "6", "7", "8", "9"}

\* the word class
WordChar ==
    Digit \cup {"_"} \cup
    {"a", "b", "c", "d", "e", "f", "g", "h", "i", "j", "k", "l", "m",
     "n", "o", "p", "q", "r", "s", "t", "u", "v", "w", "x", "y", "z",
     "A", "B", "C", "D", "E", "F", "G", "H", "I", "J", "K", "L", "M",
     "N", "O", "P", "Q", "R", "S", "T", "U", "V", "W", "X", "Y", "Z"}

\* the backtick character, which a TLA+ string cannot hold
Backtick == "<backtick>"

\* the value of a string property that is set to undefined
Undefined == <<"<undefined>">>

\* prevNode when parseMarkdown is called without one: prevNode?.type is undefined
NoNode == [type |-> "<undefined>"]

\* the attributes object {}
NoAttributes == <<>>

\* text.slice(from - 1): the characters of t from position `from` on
Drop(t, from) == SubSeq(t, from, Len(t))

\* the length of the longest prefix of t made of characters of S
RECURSIVE RunLength(_, _)
RunLength(t, S) ==
    IF t # <<>> /\ Head(t) \in S THEN 1 + RunLength(Tail(t), S) ELSE 0

\* the length of the longest suffix of t made of characters of S
RECURSIVE TailRunLength(_, _)
TailRunLength(t, S) ==
    IF t # <<>> /\ Last(t) \in S THEN 1 + TailRunLength(Front(t), S) ELSE 0

\* String.prototype.trim
Trim(t) ==
    LET a == RunLength(t, Whitespace)
        b == TailRunLength(t, Whitespace)
    IN IF a = Len(t) THEN <<>> ELSE SubSeq(t, a + 1, Len(t) - b)

HasLineTerminator(t) == \E i \in 1..Len(t) : t[i] \in LineTerminator

DigitValue(c) ==
    CASE c = "0" -> 0 [] c = "1" -> 1 [] c = "2" -> 2 [] c = "3" -> 3
      [] c = "4" -> 4 [] c = "5" -> 5 [] c = "6" -> 6 [] c = "7" -> 7
      [] c = "8" -> 8 [] c = "9" -> 9

\* parseInt of a run of decimal digits
RECURSIVE ParseInt(_)
ParseInt(ds) ==
    IF ds = <<>> THEN 0 ELSE 10 * ParseInt(Front(ds)) + DigitValue(Last(ds))

\* headingMatch: the match of the heading pattern (1 to 6 '#', whitespace, a
\* lazy non-empty group 2, then any mix of whitespace and '#' up to the end):
\* <<>> when there is no match, else <<hash count, group 2>>. Group 2 is the
\* shortest non-empty text that leaves only whitespace and '#' behind it.
HeadingMatch(text) ==
    LET h == RunLength(text, {"#"})
        w == RunLength(Drop(text, h + 1), Whitespace)
        rest == Drop(text, h + w + 1)
        tail == TailRunLength(rest, Whitespace \cup {"#"})
        keep == IF tail = Len(rest) THEN 1 ELSE Len(rest) - tail
        \* the whitespace run reached the end of the line: it gives its last
        \* character back to group 2
        given == <<text[Len(text)]>>
    IN IF h < 1 \/ h > 6 \/ w < 1 THEN <<>>
       ELSE IF rest = <<>>
            THEN IF w >= 2 /\ ~HasLineTerminator(given) THEN <<h, given>> ELSE <<>>
            ELSE IF HasLineTerminator(SubSeq(rest, 1, keep)) THEN <<>>
                 ELSE <<h, SubSeq(rest, 1, keep)>>

\* the code-fence test: three backticks, word characters (group 1), whitespace
\* up to the end: <<>> when there is no match, else <<group 1>>
CodeMatch(text) ==
    IF Len(text) < 3 \/ SubSeq(text, 1, 3) # <<Backtick, Backtick, Backtick>> THEN <<>>
    ELSE LET after == Drop(text, 4)
             l == RunLength(after, WordChar)
             end == Drop(after, l + 1)
         IN IF RunLength(end, Whitespace) = Len(end)
            THEN <<SubSeq(after, 1, l)>>
            ELSE <<>>

\* listMatch: leading whitespace (indent), a marker ('-', '*', '+' or digits
\* and '.'), whitespace, a non-empty content up to the end: <<>> when there is
\* no match, else <<indent, marker, content>>
ListMatch(text) ==
    LET i == RunLength(text, Whitespace)
        from == Drop(text, i + 1)
        d == RunLength(from, Digit)
        m == IF from # <<>> /\ Head(from) \in {"-", "*", "+"} THEN 1
             ELSE IF d >= 1 /\ Len(from) > d /\ from[d + 1] = "." THEN d + 1
             ELSE 0
        after == Drop(from, m + 1)
        w == RunLength(after, Whitespace)
        rest == Drop(after, w + 1)
        given == <<text[Len(text)]>>
        content == IF rest = <<>> THEN given ELSE rest
    IN IF m = 0 \/ w < 1 THEN <<>>
       ELSE IF rest = <<>> /\ w < 2 THEN <<>>
       ELSE IF HasLineTerminator(content) THEN <<>>
       ELSE <<SubSeq(text, 1, i), SubSeq(from, 1, m), content>>

\* the listNumber parseMarkdown gives an ordered item; prevNode is NoNode or a node
ListNumberAnyIndent(marker, indentLevel, prevNode) ==
    IF /\ prevNode.type = "list_item"
       /\ prevNode.attributes.listType = "ordered"
    THEN (IF "listNumber" \in DOMAIN prevNode.attributes
          THEN prevNode.attributes.listNumber ELSE 0) + 1
    ELSE ParseInt(Front(marker))

ListNumber(marker, indentLevel, prevNode) ==
    IF /\ prevNode.type = "list_item"
       /\ prevNode.attributes.listType = "ordered"
       /\ prevNode.attributes.listIndent = indentLevel
    THEN (IF "listNumber" \in DOMAIN prevNode.attributes
          THEN prevNode.attributes.listNumber ELSE 0) + 1
    ELSE ParseInt(Front(marker))

\* the default of parseMarkdown: a paragraph
ParagraphTrimmed(text) ==
    [type |-> "paragraph",
     content |-> Trim(text),
     rawContent |-> text,
     attributes |-> NoAttributes]

Paragraph(text) ==
    [type |-> "paragraph",
     content |-> text,
     rawContent |-> text,
     attributes |-> NoAttributes]

\* parseMarkdown(text, prevNode)
parseMarkdown(text, prevNode) ==
    LET headingMatch == HeadingMatch(text)
        codeMatch == CodeMatch(text)
        listMatch == ListMatch(text)
    IN IF headingMatch # <<>> /\ Trim(headingMatch[2]) # <<>>
       THEN [type |-> "heading",
             content |-> Trim(headingMatch[2]),
             rawContent |-> text,
             attributes |-> [level |-> headingMatch[1]]]
       ELSE IF codeMatch # <<>>
       THEN [type |-> "code_block",
             content |-> <<>>,
             rawContent |-> text,
             attributes |-> [language |-> IF codeMatch[1] = <<>> THEN Undefined
                                          ELSE codeMatch[1]]]
       ELSE IF listMatch # <<>>
       THEN LET indentLevel == Len(listMatch[1]) \div 2
                isOrdered == Last(listMatch[2]) = "."
            IN [type |-> "list_item",
                content |-> Trim(listMatch[3]),
                rawContent |-> text,
                attributes |->
                    IF isOrdered
                    THEN [listType |-> "ordered", listIndent |-> indentLevel,
                          listNumber |-> ListNumber(listMatch[2], indentLevel, prevNode)]
                    ELSE [listType |-> "bullet", listIndent |-> indentLevel]]
       ELSE Paragraph(text)

(***************************************************************************)
(*                       Document (document.ts)                            *)
(***************************************************************************)

\* ---- bounds ----
MaxNodes == 3      \* cap on the number of nodes insertNode grows the document to
MaxIds   == 3      \* cap on the number of ids nanoid() hands out after construction
MaxSnapAge == 1    \* the mutator calls a snapshot is followed through

\* the k-th id nanoid() returns: ids are never repeated
Id(k) == ToString(k)

\* activeNodeId: null. No id nanoid() returns, and no id a caller passes, is it.
NullId == "<null>"

\* an id no node ever had
StaleId == "stale"

\* the ids a caller may pass to a mutator: any id handed out so far (the id of
\* a node of the document or of one that is gone), or one that never was an id
IdArgs == {Id(k) : k \in 1..nextId} \cup {StaleId}

\* the line the model gives updateNode
Lines == {
    <<"3", ".", " ", "b">> }

\* the texts the model gives the constructor and setContent
NL == "\n"

Contents == {
    <<>>,
    <<"-", " ", "a">>,
    <<"#", " ", "a", NL, Backtick, Backtick, Backtick>>,
    <<"1", ".", " ", "a", NL, "1", ".", " ", "b">> }

\* the number of characters of t before the first c
RECURSIVE LengthBefore(_, _)
LengthBefore(t, c) ==
    IF t = <<>> \/ Head(t) = c THEN 0 ELSE 1 + LengthBefore(Tail(t), c)

\* content.split('\n')
RECURSIVE Split(_)
Split(content) ==
    LET n == LengthBefore(content, NL)
    IN IF n = Len(content) THEN <<content>>
       ELSE <<SubSeq(content, 1, n)>> \o Split(Drop(content, n + 2))

\* the selections the model gives updateSelection
Position(line, column) == [line |-> line, column |-> column]

Selection(start, end, type) ==
    [range |-> [start |-> start, end |-> end],
     isCollapsed |-> start = end,
     type |-> type]

SelectionArgs == {
    Selection(Position(0, 0), Position(1, 1), "text") }

\* {id, ...parsed}
WithId(id, parsed) ==
    [id |-> id, type |-> parsed.type, content |-> parsed.content,
     rawContent |-> parsed.rawContent, attributes |-> parsed.attributes]

\* Document.parseContent(content), after nanoid() handed out `issued` ids
parseContent(content, issued) ==
    LET lines == Split(content)
    IN [i \in 1..Len(lines) |-> WithId(Id(issued + i), parseMarkdown(lines[i], NoNode))]

\* Document.createEmptyNode(type, attributes), after nanoid() handed out `issued` ids
createEmptyNode(type, attributes, issued) ==
    [id |-> Id(issued + 1), type |-> type, content |-> <<>>, rawContent |-> <<>>,
     attributes |-> attributes]

\* content ? this.parseContent(content) : [this.createEmptyNode()]
NodesOf(content, issued) ==
    IF content # <<>> THEN parseContent(content, issued)
    ELSE <<createEmptyNode("paragraph", NoAttributes, issued)>>

\* ---- the node arrays ----
\* A DocumentState holds a reference to its node array. The live state and the
\* object getState() returned are the only holders, so two references are
\* enough: an array neither of them holds is dropped and its reference reused.
NoSnap == [none |-> TRUE]

\* this.state.nodes, read through its reference
Nodes == heap[state.nodes]

HeldBySnap == IF snap = NoSnap THEN {} ELSE {snap.nodes}

\* the reference of an array created now
NewArray == IF state.nodes \in HeldBySnap THEN 3 - state.nodes ELSE state.nodes

\* the heap after the array at reference r became `nodes`
HeapWith(r, nodes) ==
    [x \in {r} \cup HeldBySnap |-> IF x = r THEN nodes ELSE heap[x]]

\* what a DocumentState object reads as
Read(s) == [nodes |-> heap[s.nodes], selection |-> s.selection,
            activeNodeId |-> s.activeNodeId]

\* nodes.findIndex(n => n.id === id), counting from 1; 0 when there is none
FindIndexOrFirst(nodes, id) ==
    IF \E i \in 1..Len(nodes) : nodes[i].id = id
    THEN CHOOSE i \in 1..Len(nodes) :
            /\ nodes[i].id = id
            /\ \A j \in 1..(i - 1) : nodes[j].id # id
    ELSE 1

FindIndex(nodes, id) ==
    IF \E i \in 1..Len(nodes) : nodes[i].id = id
    THEN CHOOSE i \in 1..Len(nodes) :
            /\ nodes[i].id = id
            /\ \A j \in 1..(i - 1) : nodes[j].id # id
    ELSE 0

\* nodes.filter(n => n.id !== id)
RECURSIVE FilterOut(_, _)
FilterOut(nodes, id) ==
    IF nodes = <<>> THEN <<>>
    ELSE IF Head(nodes).id = id THEN FilterOut(Tail(nodes), id)
         ELSE <<Head(nodes)>> \o FilterOut(Tail(nodes), id)

\* nodes.splice(at, 0, node), at counting from 0
SpliceAtEnd(nodes, at, node) == Append(nodes, node)

Splice(nodes, at, node) ==
    SubSeq(nodes, 1, at) \o <<node>> \o SubSeq(nodes, at + 1, Len(nodes))

Max(a, b) == IF a > b THEN a ELSE b

\* every mutator call ages the snapshot a caller holds
FollowSnapshot ==
    /\ snap # NoSnap => snapAge < MaxSnapAge
    /\ snapAge' = IF snap = NoSnap THEN 0 ELSE snapAge + 1

\* new Document(initialContent); initialContent is Undefined when it is not given
Construct(initialContent) ==
    LET nodes == IF initialContent = Undefined THEN NodesOf(<<>>, 0)
                 ELSE NodesOf(initialContent, 0)
    IN /\ state = [nodes |-> 1, selection |-> Null, activeNodeId |-> NullId]
       /\ heap = [x \in {1} |-> nodes]
       /\ nextId = Len(nodes)

\* Document.getState(): a new object with the fields of this.state
GetState ==
    /\ snap' = [nodes |-> state.nodes, selection |-> state.selection,
                activeNodeId |-> state.activeNodeId]
    /\ snapTaken' = Read(state)
    /\ heap' = [x \in {state.nodes} |-> heap[x]]
    /\ snapAge' = 0
    /\ op' = [name |-> "getState"]
    /\ UNCHANGED <<state, nextId, histVars, selVars>>

\* the active node setContent leaves: this.state.nodes[0]?.id || null
FirstIdOrNullKept(nodes) == state.activeNodeId

FirstIdOrNull(nodes) == IF nodes = <<>> THEN NullId ELSE nodes[1].id

\* Document.setContent(content)
SetContent(content) ==
    LET nodes == NodesOf(content, nextId)
    IN /\ nextId + Len(nodes) <= MaxIds
       /\ state' = [nodes |-> NewArray, selection |-> Null,
                    activeNodeId |-> FirstIdOrNull(nodes)]
       /\ heap' = HeapWith(NewArray, nodes)
       /\ nextId' = nextId + Len(nodes)
       /\ op' = [name |-> "setContent", empty |-> content = <<>>, text |-> content,
                 hadSelection |-> state.selection # Null]
       /\ FollowSnapshot
       /\ UNCHANGED <<snap, snapTaken, histVars, selVars>>

\* the id updateNode gives the replaced node
UpdatedIdOfPrev(nodes, index) == nodes[Max(1, index - 1)].id

UpdatedId(nodes, index) == nodes[index].id

\* the context updateNode parses with:
\* index > 0 ? this.state.nodes[index - 1] : undefined, index counted from 0
PrevNodeNever(nodes, index) == NoNode

PrevNodeOf(nodes, index) == IF index > 1 THEN nodes[index - 1] ELSE NoNode

\* Document.updateNode(id, content)
UpdateNode(id, content) ==
    LET index == FindIndex(Nodes, id)
        prevNode == PrevNodeOf(Nodes, index)
        parsed == parseMarkdown(content, prevNode)
    IN /\ IF index = 0
          THEN UNCHANGED <<state, heap>>
          ELSE /\ heap' = HeapWith(state.nodes,
                      [Nodes EXCEPT ![index] = WithId(UpdatedId(Nodes, index), parsed)])
               /\ UNCHANGED state
       /\ op' = [name |-> "updateNode",
                 found |-> \E i \in 1..Len(Nodes) : Nodes[i].id = id,
                 gone |-> id # StaleId /\ \A i \in 1..Len(Nodes) : Nodes[i].id # id,
                 id |-> IF \E i \in 1..Len(Nodes) : Nodes[i].id = id
                        THEN id ELSE NullId,
                 text |-> content]
       /\ FollowSnapshot
       /\ UNCHANGED <<nextId, snap, snapTaken, histVars, selVars>>

\* newAttributes of insertNode: a copy of the attributes of a list_item, {}
\* after any other node
NewAttributesCopied(currentNode) == currentNode.attributes

NewAttributes(currentNode) ==
    IF currentNode.type = "list_item" THEN currentNode.attributes ELSE NoAttributes

\* Document.insertNode(afterId)
InsertNode(afterId) ==
    LET index == FindIndex(Nodes, afterId)
        currentNode == Nodes[index]
        newType == IF currentNode.type = "list_item" THEN "list_item" ELSE "paragraph"
        newAttributes == NewAttributes(currentNode)
        newNode == createEmptyNode(newType, newAttributes, nextId)
    IN /\ IF index = 0
          THEN UNCHANGED <<state, heap, nextId>>
          ELSE /\ Len(Nodes) < MaxNodes
               /\ nextId < MaxIds
               /\ heap' = HeapWith(state.nodes, Splice(Nodes, index, newNode))
               /\ state' = [state EXCEPT !.activeNodeId = newNode.id]
               /\ nextId' = nextId + 1
       /\ op' = [name |-> "insertNode",
                 found |-> \E i \in 1..Len(Nodes) : Nodes[i].id = afterId,
                 after |-> IF \E i \in 1..Len(Nodes) : Nodes[i].id = afterId
                           THEN afterId ELSE NullId]
       /\ FollowSnapshot
       /\ UNCHANGED <<snap, snapTaken, histVars, selVars>>

\* the early return of removeNode
RemoveReturnsUnguarded(nodes, index) == index = 0

RemoveReturnsWhenEmpty(nodes, index) == index = 0 \/ Len(nodes) = 0

RemoveReturns(nodes, index) == index = 0 \/ Len(nodes) = 1

\* the place, counted from 1, of the node removeNode makes active:
\* Math.max(0, index - 1) with index counted from 0
ActiveAfterRemoveSamePlace(index) == index

ActiveAfterRemove(index) == Max(0, (index - 1) - 1) + 1

\* Document.removeNode(id)
RemoveNode(id) ==
    LET index == FindIndex(Nodes, id)
        nodes == FilterOut(Nodes, id)
        active == ActiveAfterRemove(index)
    IN /\ IF RemoveReturns(Nodes, index)
          THEN UNCHANGED <<state, heap>>
          ELSE /\ heap' = HeapWith(NewArray, nodes)
               \* reading .id of a node that is not there throws, after the
               \* assignment to this.state.nodes
               /\ state' = [state EXCEPT !.nodes = NewArray,
                                         !.activeNodeId =
                                             IF active \in 1..Len(nodes)
                                             THEN nodes[active].id ELSE @]
       /\ op' = [name |-> "removeNode",
                 found |-> \E i \in 1..Len(Nodes) : Nodes[i].id = id,
                 wasActive |-> state.activeNodeId = id, wasOnly |-> Len(Nodes) = 1,
                 removed |-> IF \E i \in 1..Len(Nodes) : Nodes[i].id = id
                             THEN id ELSE NullId]
       /\ FollowSnapshot
       /\ UNCHANGED <<nextId, snap, snapTaken, histVars, selVars>>

\* Document.updateSelection(selection)
UpdateSelection(selection) ==
    /\ state' = [state EXCEPT !.selection = selection]
    /\ op' = [name |-> "updateSelection"]
    /\ FollowSnapshot
    /\ UNCHANGED <<heap, nextId, snap, snapTaken, histVars, selVars>>

\* this.state.nodes.some(n => n.id === id)
SomeAnyId(nodes, id) == TRUE

Some(nodes, id) == \E i \in 1..Len(nodes) : nodes[i].id = id

\* Document.setActiveNode(id)
SetActiveNode(id) ==
    /\ IF Some(Nodes, id)
       THEN state' = [state EXCEPT !.activeNodeId = id]
       ELSE UNCHANGED state
    /\ op' = [name |-> "setActiveNode",
              found |-> \E i \in 1..Len(Nodes) : Nodes[i].id = id]
    /\ FollowSnapshot
    /\ UNCHANGED <<heap, nextId, snap, snapTaken, histVars, selVars>>

\* Document.toMarkdown(): the rawContent values joined by line breaks
JoinNoBreak(lines) ==
    IF Len(lines) = 0 THEN <<>>
    ELSE IF Len(lines) = 1 THEN lines[1]
    ELSE lines[1] \o lines[2]

RECURSIVE Join(_)
Join(lines) ==
    IF Len(lines) = 0 THEN <<>>
    ELSE IF Len(lines) = 1 THEN lines[1]
    ELSE lines[1] \o <<NL>> \o Join(Tail(lines))

toMarkdown == Join([i \in 1..Len(Nodes) |-> Nodes[i].rawContent])

DocInit ==
    /\ \E initialContent \in Contents \cup {Undefined} : Construct(initialContent)
    /\ snap = NoSnap
    /\ snapTaken = NoSnap
    /\ snapAge = 0
    /\ op = [name |-> "init"]
    /\ done = Idle /\ undone = Idle /\ lastAddedAt = 0 /\ now = 0
    /\ ret = Idle /\ run = Idle /\ streak = Idle
    /\ lastSelectionType = Idle /\ lastSelectionTime = Idle

\* the document and its mutators; nobody calls getState()
DocNext ==
    \/ \E content \in Contents : SetContent(content)
    \/ \E id \in IdArgs, content \in Lines : UpdateNode(id, content)
    \/ \E id \in IdArgs : InsertNode(id)
    \/ \E id \in IdArgs : RemoveNode(id)
    \/ \E selection \in SelectionArgs : UpdateSelection(selection)
    \/ \E id \in IdArgs : SetActiveNode(id)

DocSpec == DocInit /\ [][DocNext]_vars

\* the document, its mutators and a caller who keeps what getState() returned
SnapshotNext ==
    \/ DocNext
    \/ GetState

SnapshotSpec == DocInit /\ [][SnapshotNext]_vars

\* the value of the live document
DocumentState == Read(state)

(***************************************************************************)
(* C6: a snapshot taken from the live document (what getState() returned)  *)
(* is never altered by a later mutator call: it keeps reading as it did    *)
(* when it was taken.                                                      *)
(***************************************************************************)
C6_SnapshotIndependent ==
    snap # NoSnap => Read(snap) = snapTaken

(***************************************************************************)
(* C7: the node sequence is never empty, after construction and after any  *)
(* sequence of mutator calls.                                              *)
(***************************************************************************)
C7_NeverEmpty == Len(Nodes) >= 1

\* removeNode was called on the only node of a document that had more before
C7_Witness ==
    /\ op.name = "removeNode"
    /\ op.found
    /\ op.wasOnly
    /\ nextId > 1

(***************************************************************************)
(* C8: removeNode(id) on a document of exactly one node leaves the whole   *)
(* DocumentState unchanged: nodes, activeNodeId and selection.             *)
(***************************************************************************)
C8_RemoveSoleNode ==
    [][ (op'.name = "removeNode" /\ Len(Nodes) = 1)
        => DocumentState' = DocumentState ]_vars

\* removeNode was called with the id of the only node, which was active,
\* while a selection was set
C8_Witness ==
    /\ op.name = "removeNode"
    /\ op.found
    /\ op.wasOnly
    /\ op.wasActive
    /\ Len(Nodes) = 1
    /\ state.selection # Null

(***************************************************************************)
(* C9: the node ids are pairwise distinct in every reachable state;        *)
(* updateNode changes no id; a new id appears on setContent and insertNode *)
(* only.                                                                   *)
(***************************************************************************)
NodeIds == [i \in 1..Len(Nodes) |-> Nodes[i].id]

DistinctIds == \A i, j \in 1..Len(Nodes) : i # j => Nodes[i].id # Nodes[j].id

C9_UniqueStableIds ==
    /\ DistinctIds
    /\ [][ /\ DistinctIds'
           /\ op'.name = "updateNode" => NodeIds' = NodeIds
           /\ op'.name \notin {"setContent", "insertNode"}
              => \A i \in 1..Len(Nodes') : \E j \in 1..Len(Nodes) : NodeIds'[i] = NodeIds[j]
         ]_vars

\* updateNode replaced the fields of the second node
C9_Witness ==
    /\ op.name = "updateNode"
    /\ op.found
    /\ Len(Nodes) >= 2
    /\ Nodes[2].rawContent \in Lines
    /\ Nodes[1].rawContent \notin Lines

(***************************************************************************)
(* C10: activeNodeId is null or the id of a node of the sequence, also     *)
(* after removeNode removed the active node and after setContent replaced  *)
(* the sequence.                                                           *)
(***************************************************************************)
C10_ActiveNodeExists ==
    \/ state.activeNodeId = NullId
    \/ \E i \in 1..Len(Nodes) : Nodes[i].id = state.activeNodeId

\* removeNode removed the active node
C10_Witness ==
    /\ op.name = "removeNode"
    /\ op.found
    /\ op.wasActive
    /\ ~op.wasOnly
    /\ state.activeNodeId # NullId

(***************************************************************************)
(*        The document under a caller that selects within bounds           *)
(***************************************************************************)

\* pos lies in the node sequence: 0 <= line < nodeCount and
\* 0 <= column <= length of the rawContent of that line
InBounds(pos, nodes) ==
    /\ pos.line \in 0..(Len(nodes) - 1)
    /\ pos.column \in 0..Len(nodes[pos.line + 1].rawContent)

\* Document.updateSelection(selection), called with a selection whose two
\* positions are within bounds at the moment of the call
UpdateSelectionWithin(selection) ==
    /\ InBounds(selection.range.start, Nodes)
    /\ InBounds(selection.range.end, Nodes)
    /\ UpdateSelection(selection)

BoundedNext ==
    \/ \E content \in Contents : SetContent(content)
    \/ \E id \in IdArgs, content \in Lines : UpdateNode(id, content)
    \/ \E id \in IdArgs : InsertNode(id)
    \/ \E id \in IdArgs : RemoveNode(id)
    \/ \E selection \in SelectionArgs : UpdateSelectionWithin(selection)

BoundedSpec == DocInit /\ [][BoundedNext]_vars

(***************************************************************************)
(* C11: whenever the selection is set, both positions of its range are     *)
(* within bounds (0 <= line < nodeCount, 0 <= column <= length of that     *)
(* line's rawContent), given that every updateSelection argument was       *)
(* within bounds when it was given.                                        *)
(***************************************************************************)
C11_SelectionInBounds ==
    state.selection # Null =>
        /\ InBounds(state.selection.range.start, Nodes)
        /\ InBounds(state.selection.range.end, Nodes)

(***************************************************************************)
(* C12: updateNode, insertNode, removeNode and setActiveNode called with   *)
(* an id that is not in the node sequence leave the whole DocumentState    *)
(* (nodes, activeNodeId, selection) unchanged.                             *)
(***************************************************************************)
C12_StaleIdAbsorbed ==
    [][ (/\ op'.name \in {"updateNode", "insertNode", "removeNode", "setActiveNode"}
         /\ ~op'.found)
        => DocumentState' = DocumentState ]_vars

\* updateNode was called with the id of a node that is gone, on a document
\* with an active node and a selection
C12_Witness ==
    /\ op.name = "updateNode"
    /\ op.gone
    /\ state.activeNodeId # NullId
    /\ state.selection # Null

(***************************************************************************)
(* C13: setContent threads each parsed node as prevNode into the parse of  *)
(* the next line: after setContent every ordered list item that directly   *)
(* follows an ordered list item of the same listIndent has its             *)
(* predecessor's listNumber + 1 ("1. a", "1. b", "1. c" load as 1, 2, 3).  *)
(***************************************************************************)
Ordered(node) ==
    /\ node.type = "list_item"
    /\ node.attributes.listType = "ordered"

C13_LoadRenumbers ==
    op.name = "setContent" =>
        \A i \in 2..Len(Nodes) :
            (/\ Ordered(Nodes[i - 1])
             /\ Ordered(Nodes[i])
             /\ Nodes[i].attributes.listIndent = Nodes[i - 1].attributes.listIndent)
            => Nodes[i].attributes.listNumber = Nodes[i - 1].attributes.listNumber + 1

(***************************************************************************)
(* C14: for every document state the mutators reach,                       *)
(* setContent(toMarkdown()) yields a node sequence of the same length      *)
(* whose nodes have, line by line, the same type, content and attributes   *)
(* (the ids may differ).                                                   *)
(***************************************************************************)
\* the node sequence setContent(toMarkdown()) would assign now
Reloaded == NodesOf(toMarkdown, nextId)

C14_RoundTrip ==
    /\ Len(Reloaded) = Len(Nodes)
    /\ \A i \in 1..Len(Nodes) :
          /\ Reloaded[i].type = Nodes[i].type
          /\ Reloaded[i].content = Nodes[i].content
          /\ Reloaded[i].attributes = Nodes[i].attributes

(***************************************************************************)
(* C15: insertNode on a list_item node creates a list_item node with the   *)
(* same listType and listIndent and empty content, and does not copy the   *)
(* listNumber of the current node into it.                                 *)
(***************************************************************************)
\* the place of the node with this id
Place(nodes, id) == CHOOSE i \in 1..Len(nodes) : nodes[i].id = id

C15_InsertedListItem ==
    [][ (op'.name = "insertNode" /\ op'.found) =>
        LET k == Place(Nodes', state'.activeNodeId)
            currentNode == Nodes'[k - 1]
            newNode == Nodes'[k]
        IN currentNode.type = "list_item" =>
              /\ newNode.type = "list_item"
              /\ newNode.content = <<>>
              /\ newNode.attributes.listType = currentNode.attributes.listType
              /\ newNode.attributes.listIndent = currentNode.attributes.listIndent
              /\ "listNumber" \notin DOMAIN newNode.attributes
      ]_vars

(***************************************************************************)
(* C16: setContent(text) makes the first node of the new sequence the      *)
(* active node and clears the selection, for every text; for the empty     *)
(* text the new sequence is exactly one paragraph node with empty content  *)
(* and rawContent.                                                         *)
(***************************************************************************)
C16_SetContentResets ==
    [][ op'.name = "setContent" =>
          /\ state'.activeNodeId = Nodes'[1].id
          /\ state'.selection = Null
          /\ op'.empty =>
                /\ Len(Nodes') = 1
                /\ Nodes'[1].type = "paragraph"
                /\ Nodes'[1].content = <<>>
                /\ Nodes'[1].rawContent = <<>>
      ]_vars

\* setContent('') replaced a document that had a selection; the one new node,
\* with the third id handed out, is active
C16_Witness ==
    /\ op.name = "setContent"
    /\ op.empty
    /\ op.hadSelection
    /\ nextId = 3
    /\ state.activeNodeId = Id(3)

(***************************************************************************)
(*                 SelectionManager (selection.ts)                         *)
(***************************************************************************)

\* ---- bounds ----
MaxLine == 2       \* the largest line number the model gives as an argument

\* ---- program constants ----
DOUBLE_PRESS_TIMEOUT == 500

\* lastSelectionType: undefined
NoType == "<undefined>"

\* lastSelectionTime: undefined. Date.now() is never negative.
NoTime == -1

\* the truthiness of lastSelectionTime: undefined and 0 are falsy
Truthy(time) == time # NoTime /\ time # 0

\* what a call that throws leaves as its outcome
TypeError == [throws |-> "TypeError"]

\* the clock values Date.now() reads in handleSelectAll: 499, 500 and 501 ms
\* apart
PressTimes == {1000, 1499, 1500, 2001}

\* the node sequences the model gives: none, one empty paragraph, two lines
NodeArgs == {
    <<>>,
    NodesOf(<<>>, 0),
    parseContent(<<"#", " ", "a", NL, Backtick, Backtick, Backtick>>, 0) }

\* the line numbers the model gives, one below and one above every sequence
LineArgs == (-1)..MaxLine

\* the positions the model gives: columns below, inside and beyond every line
PositionArgs == {Position(line, column) : line \in LineArgs, column \in {-1, 1, 4}}

\* the positions the model gives as anchor and focus of a mouse selection
MouseArgs == {Position(0, 0), Position(0, 2), Position(1, 0)}

\* SelectionManager.createEmptySelection()
createEmptySelection ==
    [range |-> [start |-> Position(0, 0), end |-> Position(0, 0)],
     isCollapsed |-> TRUE,
     type |-> "none"]

\* the guard of createLineSelection: lineIndex < 0 || lineIndex >= nodes.length
LineIndexInvalidFromZero(lineIndex, nodes) == lineIndex <= 0 \/ lineIndex >= Len(nodes)

LineIndexInvalid(lineIndex, nodes) == lineIndex < 0 \/ lineIndex >= Len(nodes)

\* SelectionManager.createLineSelection(lineIndex, nodes)
createLineSelection(lineIndex, nodes) ==
    IF LineIndexInvalid(lineIndex, nodes) THEN createEmptySelection
    ELSE [range |-> [start |-> Position(lineIndex, 0),
                     end |-> Position(lineIndex, Len(nodes[lineIndex + 1].rawContent))],
          isCollapsed |-> FALSE,
          type |-> "line"]

\* SelectionManager.createDocumentSelection(nodes)
createDocumentSelection(nodes) ==
    IF Len(nodes) = 0 THEN createEmptySelection
    ELSE [range |-> [start |-> Position(0, 0),
                     end |-> Position(Len(nodes) - 1, Len(Last(nodes).rawContent))],
          isCollapsed |-> FALSE,
          type |-> "document"]

\* SelectionManager.isCollapsed(start, end)
isCollapsedSameLine(start, end) == start.line = end.line

isCollapsed(start, end) == start.line = end.line /\ start.column = end.column

\* SelectionManager.createSelection(start, end, type)
createSelection(start, end, type) ==
    [range |-> [start |-> start, end |-> end],
     isCollapsed |-> isCollapsed(start, end),
     type |-> type]

\* isDoublePressCandidate of handleSelectAll
isDoublePressCandidateAnyTime ==
    /\ lastSelectionType = "line"
    /\ Truthy(lastSelectionTime)

isDoublePressCandidateAtEdge ==
    /\ lastSelectionType = "line"
    /\ Truthy(lastSelectionTime)
    /\ now - lastSelectionTime <= DOUBLE_PRESS_TIMEOUT

isDoublePressCandidate ==
    /\ lastSelectionType = "line"
    /\ Truthy(lastSelectionTime)
    /\ now - lastSelectionTime < DOUBLE_PRESS_TIMEOUT

\* SelectionManager.handleSelectAll(nodes, currentLine)
HandleSelectAll(nodes, currentLine) ==
    /\ ret' = IF isDoublePressCandidate THEN createDocumentSelection(nodes)
              ELSE createLineSelection(currentLine, nodes)
    /\ lastSelectionType' = IF isDoublePressCandidate THEN "document" ELSE "line"
    /\ lastSelectionTime' = now
    /\ op' = [name |-> "handleSelectAll", nodes |-> nodes, line |-> currentLine,
              at |-> now,
              was |-> lastSelectionType,
              gap |-> IF lastSelectionTime = NoTime THEN NoTime
                      ELSE now - lastSelectionTime,
              fresh |-> lastSelectionType = NoType /\ lastSelectionTime = NoTime,
              second |-> /\ op.name = "handleSelectAll"
                         /\ op.fresh
                         /\ op.line = currentLine,
              afterMouse |-> /\ op.name = "handleMouseSelection"
                             /\ op.was = "line"
                             /\ op.wasAt # NoTime
                             /\ now - op.wasAt < DOUBLE_PRESS_TIMEOUT]
    /\ UNCHANGED <<done, undone, lastAddedAt, now, run, streak, docVars>>

\* SelectionManager.handleMouseSelection(anchorNode, focusNode, anchorOffset,
\* focusOffset, getLineNumber) with two nodes that are not null: anchor and
\* focus are the positions getLineNumber and the offsets give
HandleMouseSelection(anchor, focus) ==
    /\ lastSelectionType' = "text"
    /\ lastSelectionTime' = NoTime
    /\ ret' = createSelection(anchor, focus, "text")
    /\ op' = [name |-> "handleMouseSelection", was |-> lastSelectionType,
              wasAt |-> lastSelectionTime]
    /\ UNCHANGED <<done, undone, lastAddedAt, now, run, streak, docVars>>

\* SelectionManager.handleMouseSelection with anchorNode or focusNode null
HandleMouseSelectionNull ==
    /\ ret' = Null
    /\ op' = [name |-> "handleMouseSelectionNull"]
    /\ UNCHANGED <<done, undone, lastAddedAt, now, run, streak, docVars, selVars>>

\* SelectionManager.clampPosition(pos, nodes); reading rawContent of a node
\* that is not there throws
clampPosition(pos, nodes) ==
    LET line == Max(0, Min(pos.line, Len(nodes) - 1))
    IN IF line >= Len(nodes) THEN TypeError
       ELSE Position(line, Max(0, Min(pos.column, Len(nodes[line + 1].rawContent))))

\* SelectionManager.normalizeRange(range, nodes)
normalizeRange(range, nodes) ==
    IF \/ range.start.line > range.end.line
       \/ (range.start.line = range.end.line /\ range.start.column > range.end.column)
    THEN [start |-> range.end, end |-> range.start]
    ELSE IF clampPosition(range.start, nodes) = TypeError THEN TypeError
         ELSE [start |-> clampPosition(range.start, nodes),
               end |-> clampPosition(range.end, nodes)]

\* a call of normalizeRange
NormalizeRange(range, nodes) ==
    /\ ret' = normalizeRange(range, nodes)
    /\ op' = [name |-> "normalizeRange", nodes |-> nodes]
    /\ UNCHANGED <<done, undone, lastAddedAt, now, run, streak, docVars, selVars>>

\* a call of createLineSelection
CreateLineSelection(lineIndex, nodes) ==
    /\ ret' = createLineSelection(lineIndex, nodes)
    /\ op' = [name |-> "createLineSelection", nodes |-> nodes, line |-> lineIndex]
    /\ UNCHANGED <<done, undone, lastAddedAt, now, run, streak, docVars, selVars>>

\* a call of createDocumentSelection
CreateDocumentSelection(nodes) ==
    /\ ret' = createDocumentSelection(nodes)
    /\ op' = [name |-> "createDocumentSelection", nodes |-> nodes]
    /\ UNCHANGED <<done, undone, lastAddedAt, now, run, streak, docVars, selVars>>

\* time passes between two gestures; `op` keeps naming the last call
SelectTick ==
    /\ \E t \in PressTimes : t > now /\ now' = t
    /\ UNCHANGED <<done, undone, lastAddedAt, ret, run, streak, op, docVars, selVars>>

\* new SelectionManager()
SelectInit ==
    /\ lastSelectionType = NoType
    /\ lastSelectionTime = NoTime
    /\ now = 1000
    /\ ret = Null
    /\ op = [name |-> "init"]
    /\ done = Idle /\ undone = Idle /\ lastAddedAt = 0
    /\ run = Idle /\ streak = Idle
    /\ state = Idle /\ heap = Idle /\ nextId = 0
    /\ snap = Idle /\ snapTaken = Idle /\ snapAge = 0

SelectNext ==
    \/ \E nodes \in NodeArgs, currentLine \in LineArgs : HandleSelectAll(nodes, currentLine)
    \/ \E anchor, focus \in MouseArgs : HandleMouseSelection(anchor, focus)
    \/ HandleMouseSelectionNull
    \/ \E start, end \in PositionArgs, nodes \in NodeArgs :
          NormalizeRange([start |-> start, end |-> end], nodes)
    \/ \E lineIndex \in LineArgs, nodes \in NodeArgs : CreateLineSelection(lineIndex, nodes)
    \/ \E nodes \in NodeArgs : CreateDocumentSelection(nodes)
    \/ SelectTick

SelectSpec == SelectInit /\ [][SelectNext]_vars

\* a handleSelectAll call recorded in o had a non-empty node sequence and a
\* currentLine inside it
InRange(o) == o.line >= 0 /\ o.line < Len(o.nodes)

(***************************************************************************)
(* C17: on a fresh SelectionManager, with non-empty nodes and an in-range  *)
(* currentLine, the first handleSelectAll gives a `line` selection; a      *)
(* second one on the same line gives a `document` selection when it comes  *)
(* less than 500 ms after the first and a `line` selection when it comes   *)
(* more than 500 ms after it.                                              *)
(***************************************************************************)
C17_DoublePress ==
    [][ (Called("handleSelectAll") /\ InRange(op')) =>
          /\ op'.fresh => ret'.type = "line"
          /\ (/\ op.name = "handleSelectAll"
               /\ op.fresh
               /\ InRange(op)
               /\ op'.line = op.line)
              => /\ now - op.at < DOUBLE_PRESS_TIMEOUT => ret'.type = "document"
                 /\ now - op.at > DOUBLE_PRESS_TIMEOUT => ret'.type = "line"
      ]_vars

\* the second select-all on line 1, 499 ms after the first one on a fresh
\* manager, selected the document
C17_Witness ==
    /\ op.name = "handleSelectAll"
    /\ op.second
    /\ op.line = 1
    /\ Len(op.nodes) = 2
    /\ op.at = 1499
    /\ lastSelectionType = "document"
    /\ ret.type = "document"
    /\ ret.range.end = Position(1, 3)

(***************************************************************************)
(* C18: handleSelectAll has no three-step cycle: a call made while the     *)
(* recorded type is `document`, with non-empty nodes and an in-range       *)
(* currentLine, does not produce a `line` or a `none` selection again.     *)
(***************************************************************************)
C18_NoCycleBack ==
    [][ (/\ Called("handleSelectAll")
         /\ InRange(op')
         /\ lastSelectionType = "document")
        => ret'.type \notin {"line", "none"} ]_vars

(***************************************************************************)
(* C19: handleMouseSelection with an anchor and a focus records type       *)
(* `text` and clears the recorded timestamp; it returns a `text` selection *)
(* that is collapsed exactly when start equals end; the handleSelectAll    *)
(* call that follows never yields `document`, and yields `line` for an     *)
(* in-range currentLine, however short the time since the last select-all. *)
(***************************************************************************)
C19_MouseResets ==
    [][ /\ Called("handleMouseSelection") =>
              /\ lastSelectionType' = "text"
              /\ lastSelectionTime' = NoTime
              /\ ret'.type = "text"
              /\ ret'.isCollapsed <=> (ret'.range.start = ret'.range.end)
        /\ (op.name = "handleMouseSelection" /\ Called("handleSelectAll")) =>
              /\ ret'.type # "document"
              /\ InRange(op') => ret'.type = "line"
      ]_vars

\* a select-all on line 1 right after a mouse selection that came less than
\* 500 ms after a select-all: a line selection
C19_Witness ==
    /\ op.name = "handleSelectAll"
    /\ op.afterMouse
    /\ op.line = 1
    /\ ret.type = "line"
    /\ ret.range.end = Position(1, 3)
    /\ lastSelectionType = "line"

(***************************************************************************)
(* C20: for every range and every non-empty node sequence, normalizeRange  *)
(* returns a range whose start does not sort after its end (by line, then  *)
(* column) and whose two positions are within 0 <= line <= nodeCount - 1   *)
(* and 0 <= column <= length of that line's rawContent, also when the      *)
(* input had its start after its end and positions out of bounds.          *)
(***************************************************************************)
\* a sorts after b, by line and then by column
SortsAfter(a, b) ==
    \/ a.line > b.line
    \/ (a.line = b.line /\ a.column > b.column)

C20_NormalizedRange ==
    (op.name = "normalizeRange" /\ op.nodes # <<>>) =>
        /\ ~SortsAfter(ret.start, ret.end)
        /\ InBounds(ret.start, op.nodes)
        /\ InBounds(ret.end, op.nodes)

(***************************************************************************)
(*            The line parser and formatNode on their own                  *)
(***************************************************************************)

\* ---- bounds ----
MaxLen == 4        \* the longest text made of every combination of characters

\* the characters the texts are made of
Alphabet == {"#", " ", "-", "1", ".", "a", Backtick, NL}

\* longer lines: indented list items
LongerLines == {
    <<" ", " ", "-", " ", "a">>,
    <<" ", " ", "1", "1", ".", " ", "a">>,
    <<" ", " ", " ", "1", ".", " ", "a">>,
    <<"\t", "\t", "1", ".", " ", "a">> }

Texts == (UNION {[1..n -> Alphabet] : n \in 0..MaxLen}) \cup LongerLines

\* the nodes the model gives as prevNode: none, the fourth item of an ordered
\* list, the seventh item of an indented ordered list, a bullet item and a
\* paragraph
PrevNodes == {
    NoNode,
    [id |-> Id(1), type |-> "list_item", content |-> <<"a">>,
     rawContent |-> <<"4", ".", " ", "a">>,
     attributes |-> [listType |-> "ordered", listIndent |-> 0, listNumber |-> 4]],
    [id |-> Id(1), type |-> "list_item", content |-> <<"a">>,
     rawContent |-> <<" ", " ", "7", ".", " ", "a">>,
     attributes |-> [listType |-> "ordered", listIndent |-> 1, listNumber |-> 7]],
    [id |-> Id(1), type |-> "list_item", content |-> <<"a">>,
     rawContent |-> <<"-", " ", "a">>,
     attributes |-> [listType |-> "bullet", listIndent |-> 0]],
    [id |-> Id(1), type |-> "paragraph", content |-> <<"a">>,
     rawContent |-> <<"a">>, attributes |-> NoAttributes] }

\* c repeated n times
Repeat(c, n) == [i \in 1..n |-> c]

\* the decimal digits of a number, as the template literal writes it
RECURSIVE Digits(_)
Digits(n) ==
    LET d == CHOOSE c \in Digit : DigitValue(c) = n % 10
    IN IF n < 10 THEN <<d>> ELSE Digits(n \div 10) \o <<d>>

\* formatNode(node)
formatNode(node) ==
    CASE node.type = "heading" ->
            Repeat("#", IF node.attributes.level = 0 THEN 1 ELSE node.attributes.level)
            \o <<" ">> \o node.content
      [] node.type = "list_item" ->
            LET indent == Repeat(" ", 2 * node.attributes.listIndent)
                marker == IF node.attributes.listType = "ordered"
                          THEN (IF "listNumber" \in DOMAIN node.attributes
                                THEN Digits(node.attributes.listNumber)
                                ELSE <<"u", "n", "d", "e", "f", "i", "n", "e", "d">>)
                               \o <<".">>
                          ELSE <<"-">>
            IN indent \o marker \o <<" ">> \o node.content
      [] node.type = "code_block" ->
            LET lang == IF node.attributes.language = Undefined THEN <<>>
                        ELSE node.attributes.language
            IN <<Backtick, Backtick, Backtick>> \o lang \o <<NL>> \o node.content
               \o <<NL>> \o <<Backtick, Backtick, Backtick>>
      [] OTHER -> node.content

\* a call parseMarkdown(text, prevNode)
ParseMarkdown ==
    /\ op.name = "input"
    /\ ret' = parseMarkdown(op.text, op.prevNode)
    /\ op' = [op EXCEPT !.name = "parseMarkdown"]
    /\ UNCHANGED <<done, undone, lastAddedAt, now, run, streak, docVars, selVars>>

\* a call formatNode(node) on the node the parse gave
FormatNode ==
    /\ op.name = "parseMarkdown"
    /\ ret' = formatNode(ret)
    /\ op' = [op EXCEPT !.name = "formatNode"]
    /\ UNCHANGED <<done, undone, lastAddedAt, now, run, streak, docVars, selVars>>

ParseInit ==
    /\ \E text \in Texts, prevNode \in PrevNodes :
          op = [name |-> "input", text |-> text, prevNode |-> prevNode]
    /\ ret = Null
    /\ done = Idle /\ undone = Idle /\ lastAddedAt = 0 /\ now = 0
    /\ run = Idle /\ streak = Idle
    /\ state = Idle /\ heap = Idle /\ nextId = 0
    /\ snap = Idle /\ snapTaken = Idle /\ snapAge = 0
    /\ lastSelectionType = Idle /\ lastSelectionTime = Idle

ParseNext ==
    \/ ParseMarkdown
    \/ FormatNode

ParseSpec == ParseInit /\ [][ParseNext]_vars

(***************************************************************************)
(* C21: parseMarkdown is total: for every text and every prevNode it       *)
(* returns one of the four node types with rawContent equal to the text,   *)
(* and a text that matches none of the heading, code-fence and list-item   *)
(* patterns gives a paragraph whose content is the text unchanged.         *)
(***************************************************************************)
C21_ParseTotal ==
    op.name = "parseMarkdown" =>
        /\ ret.type \in {"paragraph", "heading", "list_item", "code_block"}
        /\ ret.rawContent = op.text
        /\ (/\ HeadingMatch(op.text) = <<>>
             /\ CodeMatch(op.text) = <<>>
             /\ ListMatch(op.text) = <<>>)
            => /\ ret.type = "paragraph"
               /\ ret.content = op.text
               /\ ret.attributes = NoAttributes

\* a text with spaces around it that matches no pattern came back as a
\* paragraph
C21_Witness ==
    /\ op.name = "parseMarkdown"
    /\ op.text = <<" ", "#", "a", " ">>
    /\ ret.type = "paragraph"
    /\ ret.content = op.text

(***************************************************************************)
(* C22: for every canonical heading line ('#' times the level, one space,  *)
(* text), canonical list line (an indent of whole 2-space units, a '-' or  *)
(* 'n.' marker, one space, text; parsed without a predecessor) and         *)
(* canonical code-fence line (three backticks and an optional language),   *)
(* formatNode(parseMarkdown(x)) = x.                                       *)
(***************************************************************************)
\* a text of one line with nothing to trim
CanonicalText(t) ==
    /\ t # <<>>
    /\ ~HasLineTerminator(t)
    /\ Head(t) \notin Whitespace
    /\ Last(t) \notin Whitespace

CanonicalHeading(x) ==
    LET h == RunLength(x, {"#"})
    IN /\ h \in 1..6
       /\ Len(x) >= h + 2
       /\ x[h + 1] = " "
       /\ CanonicalText(Drop(x, h + 2))
       /\ Last(x) # "#"

CanonicalList(x) ==
    LET i == RunLength(x, {" "})
        from == Drop(x, i + 1)
        d == RunLength(from, Digit)
        number == SubSeq(from, 1, d)
        m == IF from # <<>> /\ Head(from) = "-" THEN 1
             ELSE IF /\ d >= 1
                     /\ Len(from) > d
                     /\ from[d + 1] = "."
                     /\ Digits(ParseInt(number)) = number
                  THEN d + 1
                  ELSE 0
    IN /\ i % 2 = 0
       /\ m > 0
       /\ Len(from) >= m + 2
       /\ from[m + 1] = " "
       /\ CanonicalText(Drop(from, m + 2))

CanonicalCode(x) ==
    /\ Len(x) >= 3
    /\ SubSeq(x, 1, 3) = <<Backtick, Backtick, Backtick>>
    /\ \A k \in 4..Len(x) : x[k] \in WordChar

C22_RoundTrip ==
    (/\ op.name = "formatNode"
     /\ op.prevNode = NoNode
     /\ \/ CanonicalHeading(op.text)
        \/ CanonicalList(op.text)
        \/ CanonicalCode(op.text))
    => ret = op.text

C24_MergeFrame ==
    [][ (Called("addTransaction") /\ op'.merged) =>
          /\ Len(done') = Len(done)
          /\ Front(done') = Front(done)
          /\ Last(done').before = Last(done).before
          /\ Last(done').type = Last(done).type
          /\ Last(done').timestamp = Last(done).timestamp
      ]_vars

\* a later transaction was merged into the second entry and gave it an
\* `after` that differs from that of the first entry
C24_Witness ==
    /\ op.name = "addTransaction"
    /\ op.merged
    /\ Len(done) = 2
    /\ done[2].timestamp < now
    /\ done[2].after # done[2].before
    /\ done[2].after # done[1].after

(***************************************************************************)
(* C25: lastAddedAt changes only in an addTransaction call that appends,   *)
(* where it becomes the timestamp of that transaction; a merging           *)
(* addTransaction, undo() and redo() leave it unchanged. So in a run of    *)
(* merged transactions a transaction of the same type that arrives more    *)
(* than 1000 ms after the first of the run is appended, also when it is    *)
(* within 1000 ms of the last one merged.                                  *)
(***************************************************************************)
C25_WindowFromFirst ==
    [][ /\ lastAddedAt' # lastAddedAt => (Called("addTransaction") /\ ~op'.merged)
        /\ (Called("addTransaction") /\ ~op'.merged) => lastAddedAt' = now
        /\ (\/ Called("addTransaction") /\ op'.merged
            \/ Called("undo")
            \/ Called("redo")) => lastAddedAt' = lastAddedAt
        /\ (/\ Called("addTransaction")
             /\ run # <<>>
             /\ ~run.closed
             /\ op'.type = run.first.type
             /\ now - run.first.timestamp > minTimeDelta
             /\ now - run.last.timestamp <= minTimeDelta)
            => Len(done') = Len(done) + 1
      ]_vars

\* an entry of time 0 took a merge, and the next transaction of its type, at
\* 1001, was appended
C25_Witness ==
    /\ op.name = "addTransaction"
    /\ ~op.merged
    /\ op.afterMerge
    /\ Len(done) = 2
    /\ done[1].type = done[2].type
    /\ done[1].timestamp = 0
    /\ done[2].timestamp = 1001
    /\ lastAddedAt = 1001

(***************************************************************************)
(* C26: whenever addTransaction merges a transaction into the top entry of *)
(* `done`, the timestamp of the transaction is at most 1000 ms later than  *)
(* the timestamp of that entry, also after undo() made an older entry the  *)
(* top of `done`.                                                          *)
(***************************************************************************)
C26_MergeWithinWindow ==
    [][ (Called("addTransaction") /\ op'.merged)
        => now - Last(done).timestamp <= minTimeDelta ]_vars

(***************************************************************************)
(* C27: with `done` non-empty, undo() and then redo() restore `done` and   *)
(* `undone` to what they were before the undo, and the redo returns the    *)
(* `after` of the transaction whose `before` the undo returned; undo and   *)
(* redo keep the number of entries in `done` plus `undone`.                *)
(***************************************************************************)
C27_UndoRedo ==
    [][ /\ (op.name = "undo" /\ Len(op.done) > 0 /\ Called("redo")) =>
              /\ done' = op.done
              /\ undone' = op.undone
              /\ ret = Last(op.done).before
              /\ ret' = Last(op.done).after
        /\ (Called("undo") \/ Called("redo")) =>
              Len(done') + Len(undone') = Len(done) + Len(undone)
      ]_vars

\* undo() and then redo() on two entries; the transaction undone and redone
\* has a `before` other than its `after`
C27_Witness ==
    /\ op.name = "redo"
    /\ Len(done) = 2
    /\ Len(undone) = 0
    /\ ret = done[2].after
    /\ done[2].after # done[2].before
    /\ streak # <<>>
    /\ streak.k = 1
    /\ streak.j = 1

(***************************************************************************)
(*        Editor (index.tsx): dispatch, undo and redo on the state         *)
(* The variable `state` holds the state of the Editor component.           *)
(***************************************************************************)

\* the states the editor can be given: the two a transaction can hold and one
\* with the same nodes as the second and another active node
EditorStates ==
    DocumentStates \cup {[nodes |-> <<"1", "2">>, activeNode |-> "1"]}

\* the state the Editor starts in: one empty paragraph, which is active
InitialState == [nodes |-> <<"1">>, activeNode |-> "1"]

\* the transaction dispatch builds
TransactionFromNew(newState, type) ==
    [before |-> newState, after |-> newState, timestamp |-> now, type |-> type]

TransactionOf(newState, type) ==
    [before |-> state, after |-> newState, timestamp |-> now, type |-> type]

\* dispatch(newState, type)
Dispatch(newState, type) ==
    /\ addTransaction(TransactionOf(newState, type))
    /\ state' = newState
    /\ UNCHANGED <<now, ret, heap, nextId, snap, snapTaken, snapAge, selVars>>

\* the undo key: const newState = history.undo(); if (newState) setState(newState)
EditorUndo ==
    /\ undo
    /\ state' = IF ret' = Null THEN state ELSE ret'
    /\ UNCHANGED <<now, heap, nextId, snap, snapTaken, snapAge, selVars>>

\* the redo key: const newState = history.redo(); if (newState) setState(newState)
EditorRedo ==
    /\ redo
    /\ state' = IF ret' = Null THEN state ELSE ret'
    /\ UNCHANGED <<now, heap, nextId, snap, snapTaken, snapAge, selVars>>

\* time passes between two key presses
EditorTick ==
    /\ \E t \in Timestamps : t > now /\ now' = t
    /\ UNCHANGED <<done, undone, lastAddedAt, ret, run, streak, op, docVars, selVars>>

EditorInit ==
    /\ state = InitialState
    /\ done = <<>>
    /\ undone = <<>>
    /\ lastAddedAt = 0
    /\ now = 0
    /\ ret = Null
    /\ run = <<>>
    /\ streak = <<>>
    /\ op = [name |-> "init"]
    /\ heap = Idle /\ nextId = 0
    /\ snap = Idle /\ snapTaken = Idle /\ snapAge = 0
    /\ lastSelectionType = Idle /\ lastSelectionTime = Idle

EditorNext ==
    \/ \E newState \in EditorStates, type \in TransactionType : Dispatch(newState, type)
    \/ EditorUndo
    \/ EditorRedo
    \/ EditorTick

EditorSpec == EditorInit /\ [][EditorNext]_vars

(***************************************************************************)
(* C28: when every transaction is made by dispatch and the nodes of the    *)
(* editor state change through dispatch, undo and redo only, the nodes of  *)
(* the `before` of each `done` entry are the nodes of the `after` of the   *)
(* entry directly below it, also after merges and after edits that follow  *)
(* an undo.                                                                *)
(***************************************************************************)
C28_ChainedEntries ==
    \A i \in 1..(Len(done) - 1) : done[i + 1].before.nodes = done[i].after.nodes

\* an edit made after an undo was appended on the entry left in `done`; both
\* entries change the nodes
C28_Witness ==
    /\ op.name = "addTransaction"
    /\ op.hadRedo
    /\ ~op.merged
    /\ Len(done) = 2
    /\ done[1].after.nodes # done[1].before.nodes
    /\ done[2].after.nodes # done[2].before.nodes

\* nodes without the node at place k
Without(nodes, k) == SubSeq(nodes, 1, k - 1) \o SubSeq(nodes, k + 1, Len(nodes))

(***************************************************************************)
(* C29: insertNode(afterId) with an existing id places exactly one new     *)
(* node directly after that node, keeps every other node with its fields   *)
(* and the order, makes the new node the active node, leaves the selection *)
(* unchanged, and the new node is a blank paragraph with empty attributes  *)
(* when the node at afterId is not a list_item.                            *)
(***************************************************************************)
C29_InsertAfter ==
    [][ (op'.name = "insertNode" /\ op'.found) =>
        LET k == Place(Nodes, op'.after)
            newNode == Nodes'[k + 1]
        IN /\ Len(Nodes') = Len(Nodes) + 1
           /\ Without(Nodes', k + 1) = Nodes
           /\ \A i \in 1..Len(Nodes) : Nodes[i].id # newNode.id
           /\ state'.activeNodeId = newNode.id
           /\ state'.selection = state.selection
           /\ Nodes[k].type # "list_item" =>
                 /\ newNode.type = "paragraph"
                 /\ newNode.content = <<>>
                 /\ newNode.rawContent = <<>>
                 /\ newNode.attributes = NoAttributes
      ]_vars

\* a blank paragraph was inserted between a heading and the line after it,
\* under a selection
C29_Witness ==
    /\ op.name = "insertNode"
    /\ op.found
    /\ Len(Nodes) = 3
    /\ Nodes[1].id = op.after
    /\ Nodes[1].type = "heading"
    /\ Nodes[2].type = "paragraph"
    /\ state.activeNodeId = Nodes[2].id
    /\ state.selection # Null

(***************************************************************************)
(* C30: removeNode(id) with an existing id, in a document of two or more   *)
(* nodes, removes exactly that node, keeps the other nodes and their       *)
(* order, and makes the node now at index max(0, removedIndex - 1) the     *)
(* active node, whichever node was active before.                          *)
(***************************************************************************)
C30_RemoveOne ==
    [][ (op'.name = "removeNode" /\ op'.found /\ Len(Nodes) >= 2) =>
        LET k == Place(Nodes, op'.removed)
        IN /\ Nodes' = Without(Nodes, k)
           /\ state'.activeNodeId = Nodes'[Max(0, (k - 1) - 1) + 1].id
      ]_vars

\* the last of three nodes was removed while the first was active: the
\* second is active now
C30_Witness ==
    /\ op.name = "removeNode"
    /\ op.found
    /\ ~op.wasActive
    /\ ~op.wasOnly
    /\ Len(Nodes) = 2
    /\ op.removed = Id(3)
    /\ Nodes[1].id = Id(1)
    /\ Nodes[2].id = Id(2)
    /\ state.activeNodeId = Id(2)

(***************************************************************************)
(* C31: updateNode(id, rawText) with an existing id replaces the node's    *)
(* type, content, rawContent and attributes with the parse of rawText in   *)
(* the context of the node now at the preceding position (none for the     *)
(* first node), and changes nothing else: the node's id and position, the  *)
(* number and order of nodes, the fields of every other node,              *)
(* activeNodeId and the selection.                                         *)
(***************************************************************************)
C31_UpdateFrame ==
    [][ (op'.name = "updateNode" /\ op'.found) =>
        LET k == Place(Nodes, op'.id)
            parsed == parseMarkdown(op'.text, IF k > 1 THEN Nodes[k - 1] ELSE NoNode)
        IN /\ Len(Nodes') = Len(Nodes)
           /\ \A i \in 1..Len(Nodes) : i # k => Nodes'[i] = Nodes[i]
           /\ Nodes'[k].id = Nodes[k].id
           /\ Nodes'[k].type = parsed.type
           /\ Nodes'[k].content = parsed.content
           /\ Nodes'[k].rawContent = parsed.rawContent
           /\ Nodes'[k].attributes = parsed.attributes
           /\ state'.activeNodeId = state.activeNodeId
           /\ state'.selection = state.selection
      ]_vars

\* the middle one of three ordered items was retyped as "3. b" under a
\* selection: it is numbered after the item before it, and the item after it
\* keeps its number
C31_Witness ==
    /\ op.name = "updateNode"
    /\ op.found
    /\ Len(Nodes) = 3
    /\ op.id = Nodes[2].id
    /\ Nodes[2].rawContent = <<"3", ".", " ", "b">>
    /\ Nodes[2].attributes.listNumber = 2
    /\ Nodes[3].attributes = [listType |-> "ordered", listIndent |-> 0, listNumber |-> 1]
    /\ state.selection # Null
    /\ state.activeNodeId = Nodes[1].id

(***************************************************************************)
(* C32: handleSelectAll returns a `document` selection, from line 0 column *)
(* 0 to the end of the last line, only when the recorded type is `line`    *)
(* and strictly less than 500 ms have passed since the recorded timestamp; *)
(* with a gap of exactly 500 ms or with no recorded timestamp it takes the *)
(* line branch (a `line` selection for an in-range currentLine, never a    *)
(* `document` selection); every call sets the recorded timestamp to the    *)
(* current time.                                                           *)
(***************************************************************************)
C32_EscalationWindow ==
    [][ Called("handleSelectAll") =>
          /\ lastSelectionTime' = now
          /\ ret'.type = "document" =>
                /\ lastSelectionType = "line"
                /\ lastSelectionTime # NoTime
                /\ now - lastSelectionTime < DOUBLE_PRESS_TIMEOUT
                /\ ret'.range.start = Position(0, 0)
                /\ ret'.range.end = Position(Len(op'.nodes) - 1,
                                             Len(Last(op'.nodes).rawContent))
          /\ (\/ lastSelectionTime = NoTime
              \/ now - lastSelectionTime = DOUBLE_PRESS_TIMEOUT) =>
                /\ ret'.type # "document"
                /\ lastSelectionType' = "line"
                /\ InRange(op') => ret'.type = "line"
      ]_vars

\* a select-all on line 1 exactly 500 ms after a select-all that recorded
\* `line`: a line selection again, and the timestamp moved to now
C32_Witness ==
    /\ op.name = "handleSelectAll"
    /\ op.was = "line"
    /\ op.gap = DOUBLE_PRESS_TIMEOUT
    /\ op.line = 1
    /\ Len(op.nodes) = 2
    /\ ret.type = "line"
    /\ ret.range.end = Position(1, 3)
    /\ lastSelectionTime = 1500

(***************************************************************************)
(* C33: after every handleSelectAll call the selection type the manager    *)
(* recorded equals the type of the selection the call returned, for every  *)
(* node sequence and every currentLine, an out-of-range currentLine and an *)
(* empty node sequence included.                                           *)
(***************************************************************************)
C33_RecordedIsReturned ==
    op.name = "handleSelectAll" => lastSelectionType = ret.type

(***************************************************************************)
(* C34: every Selection the SelectionManager produces (by                  *)
(* createLineSelection, createDocumentSelection, createEmptySelection,     *)
(* createSelection, handleSelectAll, handleMouseSelection) has isCollapsed *)
(* true exactly when its range start equals its range end, a line          *)
(* selection of an empty line and a document selection of a single empty   *)
(* line included.                                                          *)
(***************************************************************************)
C34_CollapsedIffEmptyRange ==
    op.name \in {"createLineSelection", "createDocumentSelection",
                 "handleSelectAll", "handleMouseSelection"} =>
        (ret.isCollapsed <=> ret.range.start = ret.range.end)

(***************************************************************************)
(* C35: createLineSelection(lineIndex, nodes) returns the empty selection  *)
(* (0,0)-(0,0), collapsed, of type `none`, when lineIndex is outside       *)
(* [0, nodeCount); otherwise it returns a `line` selection from column 0   *)
(* to the length of the rawContent of that same line.                      *)
(***************************************************************************)
C35_LineSelection ==
    op.name = "createLineSelection" =>
        IF op.line < 0 \/ op.line >= Len(op.nodes)
        THEN /\ ret.type = "none"
             /\ ret.isCollapsed
             /\ ret.range.start = Position(0, 0)
             /\ ret.range.end = Position(0, 0)
        ELSE /\ ret.type = "line"
             /\ ret.range.start = Position(op.line, 0)
             /\ ret.range.end = Position(op.line, Len(op.nodes[op.line + 1].rawContent))

\* createLineSelection(0, nodes) on a heading and a code fence selected the
\* three characters of the heading line
C35_Witness ==
    /\ op.name = "createLineSelection"
    /\ op.line = 0
    /\ Len(op.nodes) = 2
    /\ ret.type = "line"
    /\ ret.range.end = Position(0, 3)

(***************************************************************************)
(* C36: no SelectionManager operation fails: normalizeRange,               *)
(* createLineSelection, createDocumentSelection and handleSelectAll return *)
(* a value for every input, an empty node sequence and positions or line   *)
(* indexes out of range included.                                          *)
(***************************************************************************)
C36_NothingThrows ==
    op.name \in {"normalizeRange", "createLineSelection",
                 "createDocumentSelection", "handleSelectAll"} =>
        ret # TypeError

(***************************************************************************)
(* C37: for a line parsed as a list item, listIndent is the number of      *)
(* leading whitespace characters divided by two, rounded down; listType is *)
(* ordered exactly when the marker is digits followed by '.'; and for an   *)
(* ordered line listNumber is prevNode.listNumber + 1 when prevNode is an  *)
(* ordered list_item with the same listIndent, whatever digits were typed, *)
(* and the number the marker spells otherwise (no prevNode, a prevNode of  *)
(* another type, a bullet prevNode, or another indent).                    *)
(***************************************************************************)
C37_ListAttributes ==
    (op.name = "parseMarkdown" /\ ret.type = "list_item") =>
        LET leading == RunLength(op.text, Whitespace)
            from == Drop(op.text, leading + 1)
            digits == RunLength(from, Digit)
            digitsDot == digits >= 1 /\ Len(from) > digits /\ from[digits + 1] = "."
            prev == op.prevNode
            continues == /\ prev # NoNode
                         /\ prev.type = "list_item"
                         /\ prev.attributes.listType = "ordered"
                         /\ prev.attributes.listIndent = leading \div 2
        IN /\ ret.attributes.listIndent = leading \div 2
           /\ (ret.attributes.listType = "ordered") <=> digitsDot
           /\ ~digitsDot => ret.attributes.listType = "bullet"
           /\ digitsDot =>
                 ret.attributes.listNumber =
                     IF continues THEN prev.attributes.listNumber + 1
                     ELSE ParseInt(SubSeq(from, 1, digits))

\* "  11. a" after the seventh item of an ordered list of the same indent is
\* item 8
C37_Witness ==
    /\ op.name = "parseMarkdown"
    /\ op.text = <<" ", " ", "1", "1", ".", " ", "a">>
    /\ op.prevNode # NoNode
    /\ op.prevNode.attributes = [listType |-> "ordered", listIndent |-> 1, listNumber |-> 7]
    /\ ret.type = "list_item"
    /\ ret.attributes = [listType |-> "ordered", listIndent |-> 1, listNumber |-> 8]

(***************************************************************************)
(* C38: in every reachable document state each node carries only the       *)
(* attributes of its own variant: a heading has a level between 1 and 6    *)
(* and no list or language attribute; a list_item has listType and         *)
(* listIndent >= 0, with listNumber present exactly when listType is       *)
(* ordered; a code_block has at most language; a paragraph has no          *)
(* attributes.                                                             *)
(***************************************************************************)
OwnAttributes(node) ==
    LET names == DOMAIN node.attributes
    IN CASE node.type = "heading" ->
              /\ names = {"level"}
              /\ node.attributes.level \in 1..6
         [] node.type = "list_item" ->
              /\ {"listType", "listIndent"} \subseteq names
              /\ names \subseteq {"listType", "listIndent", "listNumber"}
              /\ node.attributes.listType \in {"ordered", "bullet"}
              /\ node.attributes.listIndent >= 0
              /\ ("listNumber" \in names) <=> (node.attributes.listType = "ordered")
         [] node.type = "code_block" ->
              names \subseteq {"language"}
         [] node.type = "paragraph" ->
              names = {}
         [] OTHER -> FALSE

C38_OwnAttributes ==
    \A i \in 1..Len(Nodes) : OwnAttributes(Nodes[i])

\* insertNode after a bullet item gave a second bullet item: listType and
\* listIndent copied, no listNumber
C38_Witness ==
    /\ op.name = "insertNode"
    /\ op.found
    /\ Len(Nodes) = 2
    /\ Nodes[1].attributes = [listType |-> "bullet", listIndent |-> 0]
    /\ Nodes[2].type = "list_item"
    /\ Nodes[2].content = <<>>
    /\ Nodes[2].attributes = [listType |-> "bullet", listIndent |-> 0]

(***************************************************************************)
(* C39: toMarkdown() directly after setContent(text) returns text          *)
(* unchanged; in every state toMarkdown() is the rawContent values of the  *)
(* nodes in order, separated by line breaks; and the rawContent of a node  *)
(* is the text last given for it: updateNode sets it to its argument,      *)
(* insertNode creates a node with empty rawContent, and no call changes    *)
(* the rawContent of another node.                                         *)
(***************************************************************************)
C39_RawKept ==
    /\ [](/\ op.name = "setContent" => toMarkdown = op.text
          /\ Split(toMarkdown) = [i \in 1..Len(Nodes) |-> Nodes[i].rawContent])
    /\ [][ op'.name # "setContent" =>
              \A i \in 1..Len(Nodes') :
                 IF \E j \in 1..Len(Nodes) : Nodes[j].id = Nodes'[i].id
                 THEN IF op'.name = "updateNode" /\ op'.id = Nodes'[i].id
                      THEN Nodes'[i].rawContent = op'.text
                      ELSE Nodes'[i].rawContent =
                              Nodes[Place(Nodes, Nodes'[i].id)].rawContent
                 ELSE /\ op'.name = "insertNode"
                      /\ Nodes'[i].rawContent = <<>>
          ]_vars

\* setContent("1. a\n1. b") on a document that had a selection: toMarkdown()
\* gives the same text back
C39_Witness ==
    /\ op.name = "setContent"
    /\ op.hadSelection
    /\ op.text = <<"1", ".", " ", "a", NL, "1", ".", " ", "b">>
    /\ Len(Nodes) = 2
    /\ toMarkdown = op.text

=============================================================================
